---- MODULE Spec2Model ----
(***************************************************************************)
(* The distributed update lock and the scheduled update job of             *)
(* api/index.js: LockManager (acquire, release, getLockStatus) on the Lock *)
(* collection and NewsUpdater.updateDatabase on the News collection.       *)
(* Every await of updateDatabase is a suspension point, so one invocation  *)
(* is a sequence of steps (acquire, getLockStatus, fetchFromSerpAPI,       *)
(* bulkWrite, release) that interleave with the steps of other             *)
(* invocations, of the same process or of another one, and with the clock. *)
(* The second server of the file, the cached news endpoint, is present     *)
(* with its retrying HTTP helper, fetchWithRetry.                          *)
(***************************************************************************)
EXTENDS Integers, Sequences, FiniteSets, TLC

\* ---------------------------------------------------------------- bounds
\* Number of updateDatabase invocations over all processes.
MaxRuns == 2
\* Number of clock steps.
MaxTicks == 2
\* Longest news_results list the search API returns.
MaxResults == 1
\* Longest news_results list in the runs that exercise the article store.
MaxBatch == 2
\* Minutes of clock time in the runs that follow a crashed lock holder.
MaxMinutes == 6
\* Largest MAX_RETRIES the environment configures.
MaxConfiguredRetries == 3
\* Largest retries argument fetchWithRetry is called with.
MaxRetriesArg == 5
\* Number of clock steps while the cached news endpoint serves.
MaxCacheSteps == 3
\* Largest MAX_RETRIES of the cached news endpoint.
MaxCacheRetries == 1

\* ------------------------------------------------------ program constants
\* acquire(jobName, instanceId, ttlMinutes = 5)
ttlMinutes == 5
\* new Date(now.getTime() + ttlMinutes * 60000)
MsPerMinute == 60000
TtlMs == ttlMinutes * MsPerMinute
\* const lockName = "news_update_job"
lockName == "news_update_job"
\* const updateCategories = [...]
updateCategories ==
  << [query |-> "India news", count |-> 20],
     [query |-> "Technology", count |-> 15],
     [query |-> "Business", count |-> 15],
     [query |-> "Sports", count |-> 15] >>

\* const MAX_RETRIES = process.env.MAX_RETRIES ? parseInt(...) : 3
DefaultMaxRetries == 3
\* setTimeout(resolve, 1000 * (MAX_RETRIES - retries + 1))
backoffBaseMs == 1000
\* setTimeout: a timer armed with a delay below 1 ms fires after 1 ms.
MinTimerDelay == 1
\* const numResults = Math.min(parseInt(num), 100)
MaxNum == 100
\* toISOString: the milliseconds of one day.
MsPerDay == 86400000
\* const CACHE_TTL = process.env.CACHE_TTL ? parseInt(...) : 300000
CACHE_TTL == 300000
\* if (isNaN(num) || num < 1 || num > 50)
MaxGoogleNum == 50
\* Date.now() when the cached endpoint starts: a time after the epoch.
StartTime == 1000

\* ------------------------------------------------------------ environment
\* The server processes (process.pid).
Procs == {1, 2}
\* process.env.HOSTNAME: unset, or a host name (two processes on one host
\* have the same one).
NoHost == ""
Hostnames == {NoHost, "web", "api"}
HostConfigs ==
  {[p \in Procs |-> NoHost], [p \in Procs |-> "web"]}
\* What the search API can put in news_results: an entry with a link and a
\* title ("" is a missing title), or a null entry.
Links == {"l1"}
RawTitles == {"", "t1"}
RawItems ==
  [link : Links, title : RawTitles, isNull : {FALSE}]
    \cup {[link |-> "", title |-> "", isNull |-> TRUE]}
RECURSIVE SeqsUpTo(_, _)
SeqsUpTo(S, n) ==
  IF n = 0 THEN {<<>>}
  ELSE LET shorter == SeqsUpTo(S, n - 1)
       IN  shorter \cup {Append(s, x) : s \in {t \in shorter : Len(t) = n - 1}, x \in S}
\* data.news_results || [], or [] when the request failed.
SearchOutcomes == SeqsUpTo(RawItems, MaxResults)
\* What the axios request of fetchFromSerpAPI ends with: an error (network
\* error, timeout), or data with its news_results.
SearchResponsesOf(outcomes) ==
  {[failed |-> TRUE, news_results |-> <<>>]}
    \cup {[failed |-> FALSE, news_results |-> a] : a \in outcomes}
SearchResponses == SearchResponsesOf(SearchOutcomes)
\* Result lists with several entries, of two links, so that one batch, two
\* categories or two runs can carry the same link with different titles.
StoreLinks == {"l1", "l2"}
StoreItems == [link : StoreLinks, title : RawTitles, isNull : {FALSE}]
StoreResponses == SearchResponsesOf(SeqsUpTo(StoreItems, MaxBatch))
\* Articles that earlier runs have stored: one that no later search returns
\* and one that later searches return again.
PriorArticles ==
  {[link |-> "l0", title |-> "t0", query |-> "Sports"],
   [link |-> "l1", title |-> "t0", query |-> "Sports"]}
\* return data.news_results || [], and return [] from the catch block.
NewsResults(response) ==
  IF response.failed THEN <<>> ELSE response.news_results

VARIABLES
  now,    \* the wall clock (ms), read by new Date() and Date.now()
  env,    \* env[p]: process.env.HOSTNAME of process p
  alive,  \* alive[p]: process p has not exited
  locks,  \* the Lock collection
  news,   \* the News collection
  runs,   \* the updateDatabase invocations, in the order they were made
  call,   \* the fetchWithRetry call of the cached news endpoint
  startup, \* startup[p]: how far startServer of process p has come
  http,   \* the response of the request handled last
  newsCache, \* let newsCache of the cached news endpoint
  request \* the GET /api/google-news request that awaits its fetch

vars ==
  <<now, env, alive, locks, news, runs, call, startup, http, newsCache, request>>

\* ------------------------------------------------------------ Lock store
\* A document of the Lock collection (lockSchema).
LockDoc(jobName, lockedAt, lockedBy, expiresAt) ==
  [jobName |-> jobName, lockedAt |-> lockedAt, lockedBy |-> lockedBy,
   expiresAt |-> expiresAt]

\* jobName: { unique: true }: an insert is refused (E11000) when a document
\* with this jobName exists.
UniqueIndexNone(coll, doc) == TRUE
UniqueIndex(coll, doc) == \A d \in coll : d.jobName # doc.jobName

\* The filter of acquire's findOneAndUpdate: { jobName, $or: [{ expiresAt:
\* { $lt: now } }, { expiresAt: { $exists: false } }] }. expiresAt is
\* required by the schema, so every document has one.
AcquireFilterAny(d, jobName, t) == d.jobName = jobName
AcquireFilterNever(d, jobName, t) == FALSE
AcquireFilter(d, jobName, t) == d.jobName = jobName /\ d.expiresAt < t

\* Lock.findOneAndUpdate(filter, { $set }, { upsert: true, new: true }):
\* one atomic operation of the store. A matching document is updated in
\* place; without one the upsert inserts, and the unique index refuses the
\* insert when a document of that jobName exists (the filter did not match
\* it because it has not expired).
\* $set on the matched document: it is changed in place.
SetInsertsCopy(coll, old, doc) == coll \cup {doc}
Set(coll, old, doc) == (coll \ {old}) \cup {doc}

findOneAndUpdate(coll, jobName, t, instanceId, expiresAt) ==
  LET matching == {d \in coll : AcquireFilter(d, jobName, t)}
      doc == LockDoc(jobName, t, instanceId, expiresAt)
  IN  IF matching # {}
      THEN LET old == CHOOSE d \in matching : TRUE
           IN  [coll |-> Set(coll, old, doc), error |-> "", result |-> doc]
      ELSE IF UniqueIndex(coll, doc)
      THEN [coll |-> coll \cup {doc}, error |-> "", result |-> doc]
      ELSE [coll |-> coll, error |-> "E11000", result |-> doc]

\* "Verify we got the lock": return result.lockedBy === instanceId, and false
\* from the catch block when the operation threw.
VerifyAlways(res, instanceId) == TRUE
VerifyWithoutCatch(res, instanceId) == res.result.lockedBy = instanceId
Verify(res, instanceId) == res.error = "" /\ res.result.lockedBy = instanceId

\* The filter of release's deleteOne: { jobName, lockedBy: instanceId }.
ReleaseFilterAnyOwner(d, jobName, instanceId) == d.jobName = jobName
ReleaseFilterNone(d, jobName, instanceId) == FALSE
ReleaseFilter(d, jobName, instanceId) ==
  d.jobName = jobName /\ d.lockedBy = instanceId

\* Lock.deleteOne(filter): deletes one matching document, if there is one.
deleteOne(coll, jobName, instanceId) ==
  LET matching == {d \in coll : ReleaseFilter(d, jobName, instanceId)}
  IN  IF matching = {} THEN coll
      ELSE coll \ {CHOOSE d \in matching : TRUE}

\* Lock.findOne({ jobName }): the document of jobName, or none; the
\* collection is left as it is.
findOne(coll, jobName) ==
  [coll |-> coll, result |-> {d \in coll : d.jobName = jobName}]

\* ------------------------------------------------------------ News store
\* The $set of one bulk operation: the stored fields of one search result.
Transform(article, query) ==
  [link |-> article.link,
   title |-> IF article.title = "" THEN "No title available" ELSE article.title,
   query |-> query]

\* The values of JavaScript that a field of a search result, or of a stored
\* article, can have besides a string.
undefined == "<undefined>"
null == "<null>"
\* a || b: b when a is undefined, null or the empty string.
Falsy == {undefined, null, ""}
OrLeft(a, b) == a
Or(a, b) == IF a \in Falsy THEN b ELSE a

\* new Date().toISOString().split("T")[0] at clock value t.
ToISODate(t) == IF t < MsPerDay THEN "1970-01-01" ELSE "1970-01-02"

\* String.prototype.trim, on the titles the search returns.
Trim(str) ==
  CASE str = " t1 " -> "t1"
    [] str = "  " -> ""
    [] OTHER -> str

\* article.source?.name
SourceName(source) == IF source.isUndefined THEN undefined ELSE source.name

\* The whole $set of one bulk operation (fetchedAt aside).
SetOf(article, query, t) ==
  [title |-> Or(article.title, "No title available"),
   description |-> Or(article.snippet, ""),
   link |-> article.link,
   image |-> Or(article.thumbnail, null),
   source |-> Or(SourceName(article.source), "Unknown source"),
   date |-> Or(article.date, ToISODate(t)),
   query |-> query]

\* Mongoose casts the update with the schema: the setter of title
\* (trim: true) is applied; validators are not run on an update.
castUpdate(set) == [set EXCEPT !.title = Trim(set.title)]

\* validate: v === null || /^(https?:\/\/).+/.test(v)
Urls == {"http://i1", "https://i2"}
imageValidator(v) == v = null \/ v \in Urls

\* updateOne { filter: { link }, update: { $set }, upsert: true }.
updateOneReplacesAll(coll, doc) == {doc}
updateOneInserts(coll, doc) == coll \cup {doc}
updateOneKeepsStored(coll, doc) ==
  IF \E d \in coll : d.link = doc.link THEN coll ELSE coll \cup {doc}
updateOne(coll, doc) ==
  LET matching == {d \in coll : d.link = doc.link}
  IN  IF matching = {} THEN coll \cup {doc}
      ELSE (coll \ {CHOOSE d \in matching : TRUE}) \cup {doc}

\* News.bulkWrite(bulkOps), ordered: the first k operations are applied.
RECURSIVE bulkWrite(_, _, _)
bulkWrite(coll, ops, k) ==
  IF k = 0 THEN coll
  ELSE updateOne(bulkWrite(coll, ops, k - 1), ops[k])

\* News.find({ query }).sort({ fetchedAt: -1 }).limit(numResults).lean():
\* the stored articles of the query, at most numResults of them (a limit of
\* 0 is no limit); result is their number. The collection is left as it is.
Min(a, b) == IF a < b THEN a ELSE b
findAndDelete(coll, query, numResults) ==
  LET matching == {d \in coll : d.query = query}
  IN  [coll |-> coll \ matching,
       result |-> IF numResults = 0 THEN Cardinality(matching)
                  ELSE Min(Cardinality(matching), numResults)]
find(coll, query, numResults) ==
  LET matching == {d \in coll : d.query = query}
  IN  [coll |-> coll,
       result |-> IF numResults = 0 THEN Cardinality(matching)
                  ELSE Min(Cardinality(matching), numResults)]

\* News.estimatedDocumentCount()
estimatedDocumentCount(coll) == Cardinality(coll)

\* -------------------------------------------------------- fetchWithRetry
\* MAX_RETRIES: the default, or what process.env.MAX_RETRIES parses to.
MaxRetriesValues == (0..MaxConfiguredRetries) \cup {DefaultMaxRetries}
\* The retries argument; it defaults to MAX_RETRIES.
RetriesArgs == 0..MaxRetriesArg

\* What one axios request ends with: a response, whose data is the body, or
\* an error (network error, timeout, status outside 2xx).
Bodies == {"b1", "b2"}
Errors == {"e1", "e2"}
Responses ==
  [ok : {TRUE}, data : Bodies, error : {""}]
    \cup [ok : {FALSE}, data : {""}, error : Errors]

\* A fetchWithRetry call and its recursive calls: maxRetries is MAX_RETRIES,
\* start the retries argument of the outermost call, retries the argument of
\* the innermost one; responses holds what each request ended with, delays
\* the values the timers were armed with and waits the times they took;
\* pc is "idle" (no call), "request" (awaiting axios), "timer" (awaiting the
\* backoff promise), "returned" or "threw", and result what was returned or
\* thrown.
NoCall ==
  [pc |-> "idle", maxRetries |-> DefaultMaxRetries, start |-> 0, retries |-> 0,
   responses |-> <<>>, delays |-> <<>>, waits |-> <<>>, result |-> ""]

\* 1000 * (MAX_RETRIES - retries + 1)
BackoffConstant(maxRetries, retries) == backoffBaseMs
BackoffSquared(maxRetries, retries) ==
  backoffBaseMs * (maxRetries - retries + 1) * (maxRetries - retries + 1)
Backoff(maxRetries, retries) == backoffBaseMs * (maxRetries - retries + 1)

\* How long a timer armed with ms takes.
TimerWait(ms) == IF ms < MinTimerDelay THEN MinTimerDelay ELSE ms

\* return response.data
OnSuccess(c, response) ==
  [c EXCEPT !.pc = "returned", !.result = response.data]

\* catch (error): with retries left the backoff timer is armed, without
\* any the error is thrown.
OnFailureThrowsFirst(c, response) ==
  IF c.retries > 0
  THEN [c EXCEPT !.pc = "timer",
                 !.delays = Append(c.delays, Backoff(c.maxRetries, c.retries))]
  ELSE [c EXCEPT !.pc = "threw", !.result = c.responses[1].error]
OnFailure(c, response) ==
  IF c.retries > 0
  THEN [c EXCEPT !.pc = "timer",
                 !.delays = Append(c.delays, Backoff(c.maxRetries, c.retries))]
  ELSE [c EXCEPT !.pc = "threw", !.result = response.error]

\* ------------------------------------------------------------ invocations
\* const instanceId = process.env.HOSTNAME || `local_${process.pid}_${Date.now()}`
InstanceId(p, t) ==
  IF env[p] # NoHost
  THEN [host |-> env[p], pid |-> 0, ts |-> 0]
  ELSE [host |-> "local", pid |-> p, ts |-> t]

\* What an invocation has done so far is kept with it: acquires and releases
\* count its calls of LockManager.acquire and LockManager.release; found is
\* what the store had for lockName when it executed the acquire ("none", an
\* "expired" record, a "held" one, or "error" when the store failed); fetched
\* and wrote say whether it has sent a search request and a bulk write,
\* completed whether its for loop went through every category; raced holds
\* the invocations that were awaiting their acquire, with no lock record in
\* the store, when this one was made; now is acquire's const now = new Date(),
\* read when the call is made, before the store executes the operation.
\* The positions of an invocation: awaiting acquire, getLockStatus,
\* fetchFromSerpAPI, bulkWrite or release; returned ("done"); "rejected" (an
\* exception left updateDatabase); "killed" with its process.
Running == {"acquire", "status", "fetch", "write", "release"}
InLoop == {"fetch", "write"}

NewRun(p, t, raced) ==
  [proc |-> p, instanceId |-> InstanceId(p, t), now |-> t, pc |-> "acquire",
   lockAcquired |-> FALSE, found |-> "", i |-> 0, articles |-> <<>>,
   acquires |-> 0, fetched |-> FALSE, wrote |-> FALSE, completed |-> FALSE,
   releases |-> 0, raced |-> raced]

\* The finally block: the release is awaited on every exit of the try.
Finally(run) == [run EXCEPT !.pc = "release", !.i = 0, !.articles = <<>>]

\* catch (error) { console.error(...) }, then the finally block.
CatchWithoutFinally(run) == [run EXCEPT !.pc = "done", !.i = 0, !.articles = <<>>]
Catch(run) == Finally(run)

\* The for loop goes to the next category, or the try block ends.
NextCategory(run) ==
  IF run.i < Len(updateCategories)
  THEN [run EXCEPT !.pc = "fetch", !.i = run.i + 1, !.articles = <<>>]
  ELSE Finally([run EXCEPT !.completed = TRUE])

\* if (articles.length === 0) { continue }, else the bulk operations are
\* built and written.
AfterFetchEmptyBreaks(run, articles) ==
  IF Len(articles) = 0 THEN Finally(run)
  ELSE [run EXCEPT !.pc = "write", !.articles = articles]
AfterFetch(run, articles) ==
  IF Len(articles) = 0 THEN NextCategory(run)
  ELSE [run EXCEPT !.pc = "write", !.articles = articles]

\* if (!lockAcquired) { getLockStatus; return }, else the try block starts.
AfterAcquireWithoutReturn(run, ok) ==
  NextCategory([run EXCEPT !.lockAcquired = ok, !.acquires = run.acquires + 1])
AfterAcquire(run, ok) ==
  LET r == [run EXCEPT !.lockAcquired = ok, !.acquires = run.acquires + 1]
  IN  IF ok THEN NextCategory(r) ELSE [r EXCEPT !.pc = "status"]

\* const expiresAt = new Date(now.getTime() + ttlMinutes * 60000)
ExpiresAtNow(t, ttl) == t
ExpiresAt(t, ttl) == t + ttl * MsPerMinute

\* What the store has for jobName at time t.
Found(coll, jobName, t) ==
  LET docs == {d \in coll : d.jobName = jobName}
  IN  IF docs = {} THEN "none"
      ELSE IF \E d \in docs : d.expiresAt < t THEN "expired"
      ELSE "held"

\* startServer of process p: awaiting mongoose.connect ("connecting"); cron
\* job scheduled, initial update armed and HTTP server listening ("started");
\* or process.exit(1) from the catch block ("failed").
Started == [p \in Procs |-> "started"]

\* The cron job, the timer of the initial update and the HTTP listener of a
\* process exist once startServer has come past its await of the connection.
ScheduledAlways(phase) == TRUE
Scheduled(phase) == phase = "started"

\* No request has been handled yet.
NoResponse ==
  [route |-> "", status |-> 0, query |-> "", count |-> 0, lockedBy |-> {},
   articles |-> <<>>, cached |-> FALSE, warning |-> FALSE]

\* let newsCache = { articles: [], timestamp: null, query: "" }; a timestamp
\* is a set, empty for null.
EmptyCache == [articles |-> <<>>, timestamp |-> {}, query |-> ""]

\* No GET /api/google-news request awaits a fetch.
NoRequest == [pc |-> "idle", query |-> ""]

Init ==
  /\ now = 0
  /\ env \in HostConfigs
  /\ alive = [p \in Procs |-> TRUE]
  /\ locks = {}
  /\ news = {}
  /\ runs = <<>>
  /\ call = NoCall
  /\ startup = Started
  /\ http = NoResponse
  /\ newsCache = EmptyCache
  /\ request = NoRequest

\* A cron tick, the delayed initial run or the manual trigger of process p
\* calls updateDatabase: the instanceId is derived and acquire is called,
\* which reads the clock and sends its operation to the store.
updateDatabase(p) ==
  /\ alive[p]
  /\ Len(runs) < MaxRuns
  /\ runs' = Append(runs, NewRun(p, now,
                 IF locks = {} THEN {r \in 1..Len(runs) : runs[r].pc = "acquire"}
                 ELSE {}))
  /\ UNCHANGED <<now, env, alive, locks, news, call, startup, http, newsCache, request>>

\* LockManager.acquire(lockName, instanceId): the store executes the
\* conditional upsert, built with the clock value the call read, or fails
\* (fault); acquire returns result.lockedBy === instanceId, or false from
\* its catch block.
acquire(r, fault) ==
  /\ runs[r].pc = "acquire"
  /\ LET run == runs[r]
         expiresAt == ExpiresAt(run.now, ttlMinutes)
         res == IF fault
                THEN [coll |-> locks, error |-> "store",
                      result |-> LockDoc(lockName, run.now, run.instanceId, expiresAt)]
                ELSE findOneAndUpdate(locks, lockName, run.now, run.instanceId, expiresAt)
         ok == Verify(res, run.instanceId)
         seen == IF fault THEN "error" ELSE Found(locks, lockName, run.now)
     IN  /\ locks' = res.coll
         /\ runs' = [runs EXCEPT ![r] = AfterAcquire([run EXCEPT !.found = seen], ok)]
  /\ UNCHANGED <<now, env, alive, news, call, startup, http, newsCache, request>>

\* LockManager.getLockStatus(lockName) on the skip path: Lock.findOne, which
\* is not wrapped in a try; then updateDatabase returns.
getLockStatus(r, fault) ==
  /\ runs[r].pc = "status"
  /\ locks' = IF fault THEN locks ELSE findOne(locks, lockName).coll
  /\ runs' = [runs EXCEPT ![r].pc = IF fault THEN "rejected" ELSE "done"]
  /\ UNCHANGED <<now, env, alive, news, call, startup, http, newsCache, request>>

\* NewsUpdater.fetchFromSerpAPI(query, count): the request ends with
\* response, and the news_results, or [] when it failed, are returned to the
\* loop.
fetchFrom(r, responses) ==
  /\ runs[r].pc = "fetch"
  /\ \E response \in responses :
       runs' = [runs EXCEPT ![r] =
                  AfterFetch([runs[r] EXCEPT !.fetched = TRUE], NewsResults(response))]
  /\ UNCHANGED <<now, env, alive, locks, news, call, startup, http, newsCache, request>>

fetchFromSerpAPI(r) == fetchFrom(r, SearchResponses)

\* articles.map(...) and News.bulkWrite(bulkOps): a null entry makes the map
\* throw; the bulk write applies its operations in order and may fail after
\* any number of them.
writeAs(r, whole) ==
  /\ runs[r].pc = "write"
  /\ LET run == runs[r]
         query == updateCategories[run.i].query
         n == Len(run.articles)
     IN  IF \E j \in 1..n : run.articles[j].isNull
         THEN /\ runs' = [runs EXCEPT ![r] = Catch(run)]
              /\ news' = news
         ELSE \E k \in 0..n :
                LET bulkOps == [j \in 1..n |->
                                  IF whole
                                  THEN castUpdate(SetOf(run.articles[j], query, now))
                                  ELSE Transform(run.articles[j], query)]
                    wrote == [run EXCEPT !.wrote = TRUE]
                IN  /\ news' = bulkWrite(news, bulkOps, k)
                    /\ runs' = [runs EXCEPT ![r] =
                                  IF k = n THEN NextCategory(wrote)
                                  ELSE Catch(wrote)]
  /\ UNCHANGED <<now, env, alive, locks, call, startup, http, newsCache, request>>

\* The bulk write with the fields of the article that the update job's
\* properties are about: link, title and query.
write(r) == writeAs(r, FALSE)

\* LockManager.release(lockName, instanceId) in the finally block: the store
\* executes the conditional delete, or fails (fault) and release swallows it;
\* then updateDatabase returns.
release(r, fault) ==
  /\ runs[r].pc = "release"
  /\ locks' = IF fault THEN locks
              ELSE deleteOne(locks, lockName, runs[r].instanceId)
  /\ runs' = [runs EXCEPT ![r].pc = "done",
                          ![r].releases = runs[r].releases + 1]
  /\ UNCHANGED <<now, env, alive, news, call, startup, http, newsCache, request>>

\* Process p exits (SIGINT, or it is killed) while an invocation is running.
Kill(p) ==
  /\ alive[p]
  /\ \E r \in 1..Len(runs) : runs[r].proc = p /\ runs[r].pc \in Running
  /\ alive' = [alive EXCEPT ![p] = FALSE]
  /\ runs' = [r \in 1..Len(runs) |->
                IF runs[r].proc = p /\ runs[r].pc \in Running
                THEN [runs[r] EXCEPT !.pc = "killed", !.i = 0, !.articles = <<>>]
                ELSE runs[r]]
  /\ UNCHANGED <<now, env, locks, news, call, startup, http, newsCache, request>>

\* Time passes: one millisecond, or one whole lock TTL.
ClockSteps == {1, TtlMs}
Tick(d) ==
  /\ (now \div TtlMs) + (now % TtlMs) < MaxTicks
  /\ now' = now + d
  /\ UNCHANGED <<env, alive, locks, news, runs, call, startup, http, newsCache, request>>

\* req.query.num of GET /api/news and what parseInt makes of it.
NumParams == {"abc", "1", "20", "500"}
parseInt(num) ==
  CASE num = "1" -> [isNaN |-> FALSE, n |-> 1]
    [] num = "20" -> [isNaN |-> FALSE, n |-> 20]
    [] num = "500" -> [isNaN |-> FALSE, n |-> 500]
    [] OTHER -> [isNaN |-> TRUE, n |-> 0]

\* GET /api/news?query=&num= on process p: 400 when num is not a number,
\* otherwise the stored articles of the query, at most min(num, 100) of
\* them, with their count; 500 when the store fails (fault).
getNews(p, query, num, fault) ==
  /\ alive[p] /\ Scheduled(startup[p])
  /\ LET parsed == parseInt(num)
         numResults == Min(parsed.n, MaxNum)
         res == find(news, query, numResults)
     IN  IF parsed.isNaN
         THEN /\ http' = [NoResponse EXCEPT !.route = "news", !.status = 400]
              /\ news' = news
         ELSE IF fault
         THEN /\ http' = [NoResponse EXCEPT !.route = "news", !.status = 500]
              /\ news' = news
         ELSE /\ http' = [NoResponse EXCEPT !.route = "news", !.status = 200,
                                            !.query = query, !.count = res.result]
              /\ news' = res.coll
  /\ UNCHANGED <<now, env, alive, locks, runs, call, startup, newsCache, request>>

\* GET /api/health on process p: the reads News.findOne, getLockStatus and
\* estimatedDocumentCount, and the answer with the document count and the
\* owner of the lock; 500 "degraded" when a read fails (fault).
getHealth(p, fault) ==
  /\ alive[p] /\ Scheduled(startup[p])
  /\ LET lockStatus == findOne(locks, lockName)
     IN  IF fault
         THEN /\ http' = [NoResponse EXCEPT !.route = "health", !.status = 500]
              /\ locks' = locks
         ELSE /\ http' = [NoResponse EXCEPT
                            !.route = "health", !.status = 200,
                            !.count = estimatedDocumentCount(news),
                            !.lockedBy = {d.lockedBy : d \in lockStatus.result}]
              /\ locks' = lockStatus.coll
  /\ UNCHANGED <<now, env, alive, news, runs, call, startup, newsCache, request>>

\* The steps of the system when the operations of the lock store fail as
\* Faults says: {FALSE} is a store that answers, BOOLEAN one that may fail.
NextOf(Faults) ==
  \/ \E p \in Procs : updateDatabase(p)
  \/ \E r \in 1..Len(runs) : \E fault \in Faults : acquire(r, fault)
  \/ \E r \in 1..Len(runs) : \E fault \in Faults : getLockStatus(r, fault)
  \/ \E r \in 1..Len(runs) : fetchFromSerpAPI(r)
  \/ \E r \in 1..Len(runs) : write(r)
  \/ \E r \in 1..Len(runs) : \E fault \in Faults : release(r, fault)
  \/ \E p \in Procs : Kill(p)
  \/ \E d \in ClockSteps : Tick(d)

Next == NextOf({FALSE})

Spec == Init /\ [][Next]_vars

\* The clock values the bound on the clock steps allows.
ClockValues ==
  {t \in {a + b * TtlMs : a \in 0..MaxTicks, b \in 0..MaxTicks} :
     (t \div TtlMs) + (t % TtlMs) <= MaxTicks}

\* Two acquire calls in flight at once and no lock record: two invocations
\* of any processes whose instanceIds differ, made at most one TTL apart; the
\* store executes their two conditional upserts in either order.
RaceInit ==
  /\ now \in ClockValues
  /\ env \in [Procs -> Hostnames]
  /\ alive = [p \in Procs |-> TRUE]
  /\ locks = {}
  /\ news = {}
  /\ call = NoCall
  /\ startup = Started
  /\ http = NoResponse
  /\ newsCache = EmptyCache
  /\ request = NoRequest
  /\ \E p1 \in Procs, p2 \in Procs :
       \E t1 \in ClockValues, t2 \in ClockValues :
         /\ t1 <= t2 /\ t2 <= now /\ t2 - t1 <= TtlMs
         /\ InstanceId(p1, t1) # InstanceId(p2, t2)
         /\ runs = <<NewRun(p1, t1, {}), NewRun(p2, t2, {1})>>

RaceNext == \E r \in 1..Len(runs) : acquire(r, FALSE)

RaceSpec == RaceInit /\ [][RaceNext]_vars

\* fetchWithRetry(url, config, retries = MAX_RETRIES) is called.
fetchWithRetry(retries) ==
  /\ call.pc = "idle"
  /\ call' = [call EXCEPT !.pc = "request", !.start = retries, !.retries = retries]
  /\ UNCHANGED <<now, env, alive, locks, news, runs, startup, http, newsCache, request>>

\* The awaited axios request ends with response: the body is returned, or
\* the catch block runs.
axios(response) ==
  /\ call.pc = "request"
  /\ LET c == [call EXCEPT !.responses = Append(call.responses, response)]
     IN  call' = IF response.ok THEN OnSuccess(c, response)
                 ELSE OnFailure(c, response)
  /\ UNCHANGED <<now, env, alive, locks, news, runs, startup, http, newsCache, request>>

\* The backoff timer fires: return fetchWithRetry(url, config, retries - 1).
Retry ==
  /\ call.pc = "timer"
  /\ call' = [call EXCEPT !.pc = "request", !.retries = call.retries - 1,
                 !.waits = Append(call.waits, TimerWait(call.delays[Len(call.delays)]))]
  /\ UNCHANGED <<now, env, alive, locks, news, runs, startup, http, newsCache, request>>

\* One fetchWithRetry call, for every MAX_RETRIES and every retries argument.
RetryInit ==
  /\ now = 0
  /\ env \in HostConfigs
  /\ alive = [p \in Procs |-> TRUE]
  /\ locks = {}
  /\ news = {}
  /\ runs = <<>>
  /\ call \in {[NoCall EXCEPT !.maxRetries = m] : m \in MaxRetriesValues}
  /\ startup = Started
  /\ http = NoResponse
  /\ newsCache = EmptyCache
  /\ request = NoRequest

RetryNext ==
  \/ \E retries \in RetriesArgs : fetchWithRetry(retries)
  \/ \E response \in Responses : axios(response)
  \/ Retry

RetrySpec == RetryInit /\ [][RetryNext]_vars

\* The update job on an article store that earlier runs have filled, with
\* result lists of several entries; the clock stands still and no process
\* exits, so that the runs follow one another.
StoreInit ==
  /\ now = 0
  /\ env = [p \in Procs |-> NoHost]
  /\ alive = [p \in Procs |-> TRUE]
  /\ locks = {}
  /\ news \in SUBSET PriorArticles
  /\ runs = <<>>
  /\ call = NoCall
  /\ startup = Started
  /\ http = NoResponse
  /\ newsCache = EmptyCache
  /\ request = NoRequest

StoreNext ==
  \/ \E p \in Procs : updateDatabase(p)
  \/ \E r \in 1..Len(runs) : acquire(r, FALSE)
  \/ \E r \in 1..Len(runs) : getLockStatus(r, FALSE)
  \/ \E r \in 1..Len(runs) : fetchFrom(r, StoreResponses)
  \/ \E r \in 1..Len(runs) : write(r)
  \/ \E r \in 1..Len(runs) : release(r, FALSE)

StoreSpec == StoreInit /\ [][StoreNext]_vars

\* cron.schedule("*/1 * * * *", NewsUpdater.updateDatabase), and the delayed
\* initial run: once in a minute the callback of a running process p calls
\* updateDatabase. A process is followed through one invocation at a time:
\* the new one takes the place of its last one, which has returned.
cron(p) ==
  /\ alive[p]
  /\ \A r \in 1..Len(runs) :
       runs[r].proc = p => runs[r].pc \notin Running /\ runs[r].now < now
  /\ LET mine == {r \in 1..Len(runs) : runs[r].proc = p}
         run == NewRun(p, now, {})
     IN  runs' = IF mine = {} THEN Append(runs, run)
                 ELSE [r \in 1..Len(runs) |-> IF r \in mine THEN run ELSE runs[r]]
  /\ UNCHANGED <<now, env, alive, locks, news, call, startup, http, newsCache, request>>

\* A minute passes.
Minute ==
  /\ now < MaxMinutes * MsPerMinute
  /\ now' = now + MsPerMinute
  /\ UNCHANGED <<env, alive, locks, news, runs, call, startup, http, newsCache, request>>

\* Process p stops while another instance keeps running.
Crash(p) ==
  /\ \E q \in Procs \ {p} : alive[q]
  /\ Kill(p)

\* The search answers with no result or with one article.
RecoveryResponses ==
  SearchResponsesOf({<<>>, <<[link |-> "l1", title |-> "t1", isNull |-> FALSE]>>})

\* The next await of invocation r resolves.
Step(r) ==
  /\ r \in 1..Len(runs)
  /\ \/ acquire(r, FALSE)
     \/ getLockStatus(r, FALSE)
     \/ fetchFrom(r, RecoveryResponses)
     \/ write(r)
     \/ release(r, FALSE)

RecoveryNext ==
  \/ \E p \in Procs : cron(p)
  \/ \E r \in 1..Len(runs) : Step(r)
  \/ \E p \in Procs : Crash(p)
  \/ Minute

\* The instances under their schedulers: the clock advances, the cron
\* callback of a running process fires, and every awaited operation of an
\* invocation resolves (the stores answer, the search request has a timeout).
RecoveryInit ==
  /\ now = 0
  /\ env = [p \in Procs |-> NoHost]
  /\ alive = [p \in Procs |-> TRUE]
  /\ locks = {}
  /\ news = {}
  /\ runs = <<>>
  /\ call = NoCall
  /\ startup = Started
  /\ http = NoResponse
  /\ newsCache = EmptyCache
  /\ request = NoRequest

RecoverySpec ==
  /\ RecoveryInit
  /\ [][RecoveryNext]_vars
  /\ WF_vars(Minute)
  /\ \A p \in Procs : WF_vars(cron(p))
  /\ \A r \in 1..Cardinality(Procs) : WF_vars(Step(r))

\* The same system on a lock store whose operations may fail.
FaultNext == NextOf(BOOLEAN)

FaultSpec == Init /\ [][FaultNext]_vars

\* The update job together with the request handlers: clients read the
\* article store and the health of the job while invocations run; the
\* search answers with an error, with no result or with one article of one
\* of two links, so that two categories, or two runs, can return the same
\* link.
ServeResponses ==
  SearchResponsesOf({<<>>} \cup
    {<<[link |-> l, title |-> "t1", isNull |-> FALSE]>> : l \in StoreLinks})

\* The queries the clients ask for: the first two categories.
ServeQueries == {updateCategories[i].query : i \in 1..2}

ServeInit ==
  /\ now = 0
  /\ env = [p \in Procs |-> NoHost]
  /\ alive = [p \in Procs |-> TRUE]
  /\ locks = {}
  /\ news = {}
  /\ runs = <<>>
  /\ call = NoCall
  /\ startup = Started
  /\ http = NoResponse
  /\ newsCache = EmptyCache
  /\ request = NoRequest

ServeNext ==
  \/ \E p \in Procs : updateDatabase(p)
  \/ \E r \in 1..Len(runs) : acquire(r, FALSE)
  \/ \E r \in 1..Len(runs) : getLockStatus(r, FALSE)
  \/ \E r \in 1..Len(runs) : fetchFrom(r, ServeResponses)
  \/ \E r \in 1..Len(runs) : write(r)
  \/ \E r \in 1..Len(runs) : release(r, FALSE)
  \/ \E p \in Procs, query \in ServeQueries, num \in NumParams, fault \in BOOLEAN :
       getNews(p, query, num, fault)
  \/ \E p \in Procs, fault \in BOOLEAN : getHealth(p, fault)

ServeSpec == ServeInit /\ [][ServeNext]_vars

\* ------------------------------------------------- cached news endpoint
\* req.query.query of GET /api/google-news: the default and another one.
RequestQueries == {"India news", "Cricket"}

\* data.news_results || [] of the body the search API returned for query,
\* mapped to the articles of the answer: one body has one result, the other
\* has no news_results. An article is known by its link and by the query
\* whose search returned it.
Articles(data, query) ==
  IF data = "b1" THEN <<[link |-> "l1", query |-> query]>> ELSE <<>>

\* const cacheValid = newsCache.timestamp && Date.now() - newsCache.timestamp
\* < CACHE_TTL && newsCache.query === query
CacheValidAnyQuery(cache, query, t) ==
  \E ts \in cache.timestamp : ts # 0 /\ t - ts < CACHE_TTL
CacheValid(cache, query, t) ==
  \E ts \in cache.timestamp :
    ts # 0 /\ t - ts < CACHE_TTL /\ cache.query = query

\* isNaN(num) || num < 1 || num > 50
BadNum(num) ==
  LET parsed == parseInt(num)
  IN  parsed.isNaN \/ parsed.n < 1 \/ parsed.n > MaxGoogleNum

\* GET /api/google-news?query=&num= arrives: 400 for a bad num; the cached
\* articles when the cache is valid for the query; otherwise fetchWithRetry
\* is called with the default retries and the handler awaits it.
googleNews(query, num) ==
  /\ request.pc = "idle" /\ call.pc = "idle"
  /\ IF BadNum(num)
     THEN /\ http' = [NoResponse EXCEPT !.route = "google-news", !.status = 400]
          /\ UNCHANGED <<call, request>>
     ELSE IF CacheValid(newsCache, query, now)
     THEN /\ http' = [NoResponse EXCEPT
                        !.route = "google-news", !.status = 200, !.query = query,
                        !.articles = newsCache.articles, !.cached = TRUE]
          /\ UNCHANGED <<call, request>>
     ELSE /\ request' = [pc |-> "fetching", query |-> query]
          /\ call' = [call EXCEPT !.pc = "request", !.start = call.maxRetries,
                         !.retries = call.maxRetries]
          /\ http' = http
  /\ UNCHANGED <<now, env, alive, locks, news, runs, startup, newsCache>>

\* The awaited fetchWithRetry returns: the articles replace the cache entry
\* and are the answer. Or it throws: the catch block answers with the cached
\* articles when there are any, whatever their query and age, and with 500
\* otherwise.
googleNewsFetched ==
  /\ request.pc = "fetching" /\ call.pc \in {"returned", "threw"}
  /\ LET query == request.query
         articles == Articles(call.result, query)
     IN  IF call.pc = "returned"
         THEN /\ newsCache' = [articles |-> articles, timestamp |-> {now},
                               query |-> query]
              /\ http' = [NoResponse EXCEPT
                            !.route = "google-news", !.status = 200,
                            !.query = query, !.articles = articles]
         ELSE /\ newsCache' = newsCache
              /\ http' = IF Len(newsCache.articles) > 0
                         THEN [NoResponse EXCEPT
                                 !.route = "google-news", !.status = 200,
                                 !.query = query,
                                 !.articles = newsCache.articles,
                                 !.cached = TRUE, !.warning = TRUE]
                         ELSE [NoResponse EXCEPT
                                 !.route = "google-news", !.status = 500]
  /\ request' = NoRequest
  /\ call' = [NoCall EXCEPT !.maxRetries = call.maxRetries]
  /\ UNCHANGED <<now, env, alive, locks, news, runs, startup>>

\* Time passes: one millisecond, or one millisecond less than the cache TTL.
CacheSteps == {1, CACHE_TTL - 1}
Pass(d) ==
  /\ ((now - StartTime) \div (CACHE_TTL - 1))
       + ((now - StartTime) % (CACHE_TTL - 1)) < MaxCacheSteps
  /\ now' = now + d
  /\ UNCHANGED <<env, alive, locks, news, runs, call, startup, http, newsCache,
                 request>>

\* The cached news endpoint of one process: requests arrive one after the
\* other, each fetch goes through fetchWithRetry, and time passes.
CacheInit ==
  /\ now = StartTime
  /\ env = [p \in Procs |-> NoHost]
  /\ alive = [p \in Procs |-> TRUE]
  /\ locks = {}
  /\ news = {}
  /\ runs = <<>>
  /\ call \in {[NoCall EXCEPT !.maxRetries = m] : m \in 0..MaxCacheRetries}
  /\ startup = Started
  /\ http = NoResponse
  /\ newsCache = EmptyCache
  /\ request = NoRequest

CacheNext ==
  \/ \E query \in RequestQueries, num \in NumParams : googleNews(query, num)
  \/ \E response \in Responses : request.pc = "fetching" /\ axios(response)
  \/ request.pc = "fetching" /\ Retry
  \/ googleNewsFetched
  \/ \E d \in CacheSteps : Pass(d)

CacheSpec == CacheInit /\ [][CacheNext]_vars

\* ------------------------------------------------------------ properties
RunIds == 1..Len(runs)

\* The step in which invocation r's call of LockManager.acquire returns.
AcquireReturns(r) ==
  runs[r].pc = "acquire" /\ runs'[r].pc \notin {"acquire", "killed"}

\* The step in which invocation r's call of LockManager.release returns.
ReleaseReturns(r) == runs[r].pc = "release" /\ runs'[r].pc = "done"

\* Invocation r is between its successful acquire and its release.
InCriticalSection(r) == runs[r].lockAcquired /\ runs[r].pc \in InLoop

\* C1: at most one updateDatabase invocation is between its successful
\* acquire and its release, whatever the length of a run is compared with
\* the lock TTL. The code does not keep this when a run outlives its TTL.
C1_MutualExclusion ==
  \A a \in RunIds, b \in RunIds :
    InCriticalSection(a) /\ InCriticalSection(b) => a = b

C3_HeldLockRefused ==
  [][\A r \in RunIds :
       (/\ AcquireReturns(r)
        /\ \E d \in locks : /\ d.jobName = lockName
                            /\ ~(d.expiresAt < runs[r].now)
                            /\ d.lockedBy # runs[r].instanceId)
       => ~runs'[r].lockAcquired /\ locks' = locks]_vars

C3_Witness ==
  \E r \in RunIds :
    /\ runs[r].pc = "status" /\ runs[r].found = "held"
    /\ \E d \in locks : /\ d.lockedBy # runs[r].instanceId
                        /\ d.expiresAt = runs[r].now

\* C4: acquire by any B when the record's expiresAt is earlier than now, the
\* time at which acquire is called, returns true, and the single record of
\* the job then has lockedBy = B, lockedAt = now and expiresAt = now + ttl.
C4_ExpiredLockTaken ==
  [][\A r \in RunIds :
       (/\ AcquireReturns(r)
        /\ \E d \in locks : d.jobName = lockName /\ d.expiresAt < runs[r].now)
       => /\ runs'[r].lockAcquired
          /\ locks' = {LockDoc(lockName, runs[r].now, runs[r].instanceId,
                               runs[r].now + ttlMinutes * MsPerMinute)}]_vars

C4_Witness ==
  \E r \in RunIds, o \in RunIds :
    /\ runs[r].lockAcquired /\ runs[r].found = "expired"
    /\ runs[o].lockAcquired /\ runs[o].instanceId # runs[r].instanceId
    /\ locks = {LockDoc(lockName, runs[r].now, runs[r].instanceId,
                        runs[r].now + TtlMs)}

\* C5: release by B while the record is owned by A # B changes nothing: the
\* record stays, with its owner, lockedAt and expiresAt; so an invocation
\* whose lock expired and was taken over does not remove the new owner's lock.
C5_ForeignReleaseNoOp ==
  [][\A r \in RunIds :
       (/\ ReleaseReturns(r)
        /\ \E d \in locks : d.jobName = lockName /\ d.lockedBy # runs[r].instanceId)
       => locks' = locks]_vars

C5_Witness ==
  \E r \in RunIds, o \in RunIds :
    /\ runs[r].pc = "done" /\ runs[r].lockAcquired /\ runs[r].releases = 1
    /\ runs[o].found = "expired" /\ InCriticalSection(o)
    /\ runs[o].instanceId # runs[r].instanceId
    /\ \E d \in locks : d.lockedBy = runs[o].instanceId

\* C6: after release by the owner no record of the job remains, nothing but
\* an acquire or a release changes the lock store, and an acquire that finds
\* no record returns true: the next acquire after the owner's release
\* succeeds at once, whatever the old expiresAt was.
C6_ReleaseFreesLock ==
  [][/\ \A r \in RunIds :
          (/\ ReleaseReturns(r)
           /\ \E d \in locks : d.jobName = lockName /\ d.lockedBy = runs[r].instanceId)
          => \A d \in locks' : d.jobName # lockName
     /\ \A r \in RunIds :
          (AcquireReturns(r) /\ \A d \in locks : d.jobName # lockName)
          => runs'[r].lockAcquired
     /\ locks' # locks =>
          \E r \in RunIds : AcquireReturns(r) \/ ReleaseReturns(r)]_vars

C6_Witness ==
  \E r \in RunIds, x \in RunIds :
    /\ runs[r].pc = "done" /\ runs[r].lockAcquired /\ runs[r].releases = 1
    /\ runs[r].found = "none"
    /\ InCriticalSection(x) /\ runs[x].found = "none"
    /\ \E d \in locks : d.lockedBy = runs[x].instanceId /\ d.lockedAt < TtlMs

\* C7: the lock store never holds two records of one jobName, so at most one
\* record that has not expired and at most one owner.
C7_OneRecordPerJob ==
  \A d1 \in locks, d2 \in locks : d1.jobName = d2.jobName => d1 = d2

C7_Witness ==
  /\ Cardinality(locks) = 1
  /\ \E r \in RunIds, o \in RunIds :
       /\ runs[r].found = "held" /\ runs[r].acquires = 1
       /\ runs[o].lockAcquired /\ runs[o].instanceId = runs[r].instanceId

\* C8: an updateDatabase invocation whose acquire returned true has called
\* LockManager.release exactly once when it returns, on every exit path, and
\* never calls it more than once.
C8_ReleaseOnEveryExit ==
  \A r \in RunIds :
    /\ runs[r].releases <= 1
    /\ (runs[r].lockAcquired /\ runs[r].pc \in {"done", "rejected"})
         => runs[r].releases = 1
    /\ (runs[r].lockAcquired /\ runs[r].releases = 0)
         => runs[r].pc \in InLoop \cup {"release", "killed"}

C8_Witness ==
  \E r \in RunIds :
    /\ runs[r].pc = "done" /\ runs[r].lockAcquired /\ runs[r].releases = 1
    /\ runs[r].fetched /\ ~runs[r].completed

\* C9 as claimed: of two updateDatabase invocations made concurrently with no
\* lock record present, once both have returned (no pass having been cut
\* short by an exception), exactly one has acquired the lock and gone
\* through all the categories, and the other has made no search fetch and no
\* article upsert.
C9_ExactlyOnePass ==
  \A b \in RunIds : \A a \in runs[b].raced :
    (/\ runs[a].pc = "done" /\ runs[b].pc = "done"
     /\ \A x \in {a, b} : runs[x].lockAcquired => runs[x].completed) =>
      \E w \in {a, b} : \A l \in {a, b} \ {w} :
        /\ runs[w].lockAcquired /\ runs[w].completed
        /\ ~runs[l].lockAcquired /\ ~runs[l].fetched /\ ~runs[l].wrote

\* C9 as amended: each of two updateDatabase invocations made concurrently
\* with no lock record present acquires the lock, and goes on to the
\* categories, exactly when the store, executing its acquire, finds no record
\* or an expired one; the one whose acquire finds a record that has not
\* expired makes no search fetch and no article upsert.
C9_ContentionSkipsPass ==
  \A b \in RunIds : \A a \in runs[b].raced : \A x \in {a, b} :
    runs[x].acquires = 1 =>
      /\ runs[x].lockAcquired <=> runs[x].found \in {"none", "expired"}
      /\ runs[x].found = "held" => ~runs[x].fetched /\ ~runs[x].wrote
      /\ (runs[x].lockAcquired /\ runs[x].pc = "done") => runs[x].fetched

C9_Witness ==
  \E b \in RunIds : \E a \in runs[b].raced :
    \E w \in {a, b} : \A l \in {a, b} \ {w} :
      /\ runs[w].pc = "done" /\ runs[w].completed
      /\ runs[l].pc = "done" /\ runs[l].found = "held" /\ ~runs[l].fetched

\* C10: an invocation whose acquire returned false makes no search fetch, no
\* article write, no release call and no further acquire attempt, and
\* returns.
C10_ContentionSkipsRun ==
  \A r \in RunIds :
    /\ runs[r].acquires <= 1
    /\ (runs[r].acquires = 1 /\ ~runs[r].lockAcquired) =>
         /\ ~runs[r].fetched /\ ~runs[r].wrote
         /\ runs[r].releases = 0
         /\ runs[r].pc \in {"status", "done", "killed"}

C10_Witness ==
  \E r \in RunIds :
    /\ runs[r].pc = "done" /\ runs[r].acquires = 1 /\ ~runs[r].lockAcquired
    /\ runs[r].found = "held"

\* C15 as claimed: fetchWithRetry called with retries = n against a target
\* that fails on every attempt makes exactly n + 1 attempts and then throws,
\* and the waits between successive attempts are strictly increasing, for
\* every n >= 0.
C15_IncreasingWaits ==
  call.pc = "threw" =>
    /\ Len(call.responses) = call.start + 1
    /\ \A k \in 1..(Len(call.waits) - 1) : call.waits[k] < call.waits[k + 1]

\* C15 as amended: n + 1 attempts, all failed, n waits, and then the error is
\* thrown; the waits never decrease, and the wait before the retry issued
\* with retries = r is shorter than the next one when r <= MAX_RETRIES + 1,
\* so the waits are strictly increasing when n <= MAX_RETRIES + 1; the timers
\* of the retries issued with r > MAX_RETRIES + 1 are armed with a negative
\* delay and all take the shortest timer delay.
C15_AttemptsAndWaits ==
  call.pc = "threw" =>
    /\ Len(call.responses) = call.start + 1
    /\ \A k \in 1..Len(call.responses) : ~call.responses[k].ok
    /\ Len(call.waits) = call.start
    /\ \A k \in 1..(call.start - 1) :
         /\ call.waits[k] <= call.waits[k + 1]
         /\ (call.start - k + 1 <= call.maxRetries + 1)
              => call.waits[k] < call.waits[k + 1]
         /\ (call.start - k + 1 > call.maxRetries + 1)
              => call.waits[k] = MinTimerDelay

C15_Witness ==
  /\ call.pc = "threw" /\ call.start = 2 /\ call.maxRetries = DefaultMaxRetries
  /\ Len(call.responses) = 3
  /\ call.waits = <<2000, 3000>>

\* C16: the timer before the retry issued with retries = r > 0 is armed with
\* 1000 * (MAX_RETRIES - r + 1), r goes down by exactly one per retry, and a
\* call started with retries = MAX_RETRIES waits 1000, 2000, 3000, ... ms.
C16_LinearBackoff ==
  call.pc # "idle" =>
    /\ call.retries >= 0
    /\ call.retries = call.start - Len(call.waits)
    /\ Len(call.delays) = Len(call.waits) + (IF call.pc = "timer" THEN 1 ELSE 0)
    /\ \A k \in 1..Len(call.delays) :
         call.delays[k] = 1000 * (call.maxRetries - (call.start - k + 1) + 1)
    /\ call.start = call.maxRetries =>
         \A k \in 1..Len(call.waits) : call.waits[k] = 1000 * k

C16_Witness ==
  /\ call.start = DefaultMaxRetries /\ call.maxRetries = DefaultMaxRetries
  /\ call.retries = 0
  /\ call.waits = <<1000, 2000, 3000>>

\* C17: fetchWithRetry returns the body of the first attempt that succeeds,
\* unchanged, and makes no attempt after it; it throws only when the attempt
\* made with retries = 0 failed, and then throws that attempt's error.
C17_LastAttemptOutcome ==
  LET n == Len(call.responses)
  IN  /\ \A k \in 1..(n - 1) : ~call.responses[k].ok
      /\ call.pc \in {"request", "timer"} => \A k \in 1..n : ~call.responses[k].ok
      /\ call.pc = "returned" =>
           /\ n >= 1 /\ call.responses[n].ok
           /\ call.result = call.responses[n].data
      /\ call.pc = "threw" =>
           /\ n >= 1 /\ ~call.responses[n].ok
           /\ call.retries = 0
           /\ call.result = call.responses[n].error

C17_Witness ==
  /\ call.pc = "threw" /\ Len(call.responses) = 3
  /\ call.responses[1].error # call.responses[3].error
  /\ call.result = call.responses[3].error

\* The step in which invocation r's call of fetchFromSerpAPI returns.
FetchReturns(r) ==
  runs[r].pc = "fetch" /\ runs'[r] # runs[r] /\ runs'[r].pc # "killed"

\* C11: when the search fetch of a category fails or returns no result, the
\* invocation writes nothing for that category and goes on to fetch the next
\* category of the list, or ends its pass after the last one.
C11_EmptyFetchContinues ==
  [][\A r \in RunIds :
       (FetchReturns(r) /\ runs'[r].pc # "write") =>
          /\ news' = news
          /\ runs'[r].wrote = runs[r].wrote
          /\ IF runs[r].i < Len(updateCategories)
             THEN runs'[r].pc = "fetch" /\ runs'[r].i = runs[r].i + 1
             ELSE runs'[r].pc = "release" /\ runs'[r].completed]_vars

C11_Witness ==
  \E r \in RunIds :
    /\ runs[r].pc = "done" /\ runs[r].lockAcquired /\ runs[r].fetched
    /\ runs[r].completed /\ ~runs[r].wrote
    /\ news = {}

\* The step in which invocation r's News.bulkWrite returns or throws: its
\* bulk operations were built (no entry of the result list is null) and sent.
BulkWriteReturns(r) ==
  /\ runs[r].pc = "write"
  /\ \A j \in 1..Len(runs[r].articles) : ~runs[r].articles[j].isNull
  /\ runs'[r] # runs[r] /\ runs'[r].pc # "killed"

\* C12: after the bulk write of a category, failed or not, the invocation
\* goes on to fetch the next category of the list (and ends its pass after
\* the last one). The code does not keep this: a failed bulk write ends the
\* loop.
C12_WriteFailureIsolated ==
  [][\A r \in RunIds :
       BulkWriteReturns(r) =>
          IF runs[r].i < Len(updateCategories)
          THEN runs'[r].pc = "fetch" /\ runs'[r].i = runs[r].i + 1
          ELSE runs'[r].pc = "release"]_vars

\* The links of the result list invocation r is about to write.
BatchLinks(r) ==
  {runs[r].articles[j].link : j \in 1..Len(runs[r].articles)}

\* The step in which invocation r's News.bulkWrite returns without throwing.
BulkWriteSucceeds(r) ==
  BulkWriteReturns(r) /\ (runs'[r].pc = "fetch" \/ runs'[r].completed)

\* C13: a fetch, and so a fetch that returns no result, changes nothing in
\* the article store; the store changes only in the bulk write of a
\* non-empty result list, which neither deletes nor modifies an article whose
\* link is not in that list (articles stored earlier under a category whose
\* fetch is now empty stay as they are); and a bulk write that succeeds
\* leaves every article of its list stored under its category.
C13_EmptyFetchKeepsStore ==
  [][/\ \A r \in RunIds : FetchReturns(r) => news' = news
     /\ news' # news =>
          \E r \in RunIds :
            /\ BulkWriteReturns(r) /\ Len(runs[r].articles) > 0
            /\ \A d \in news : d.link \notin BatchLinks(r) => d \in news'
            /\ \A d \in news' \ news : d.link \in BatchLinks(r)
     /\ \A r \in RunIds :
          BulkWriteSucceeds(r) =>
            \A l \in BatchLinks(r) :
              \E d \in news' :
                d.link = l /\ d.query = updateCategories[runs[r].i].query]_vars

C13_Witness ==
  /\ Len(runs) = 1 /\ runs[1].pc = "done" /\ runs[1].completed
  /\ [link |-> "l0", title |-> "t0", query |-> "Sports"] \in news
  /\ \E d \in news : d.query = "Technology"
  /\ \A d \in news : d.link \in StoreLinks => d.query # "Sports"

\* The last entry of invocation r's result list that has link l.
LastWithLink(r, l) ==
  LET js == {j \in 1..Len(runs[r].articles) : runs[r].articles[j].link = l}
  IN  runs[r].articles[CHOOSE j \in js : \A k \in js : k <= j]

\* C14: the article store never holds two records of one link, and a bulk
\* write that succeeds leaves, for every link of its list, the one record of
\* that link with the title written last for it, adding a record only for a
\* link that was not stored.
C14_OneRecordPerLink ==
  /\ [](\A d1 \in news, d2 \in news : d1.link = d2.link => d1 = d2)
  /\ [][\A r \in RunIds :
          BulkWriteSucceeds(r) =>
            /\ \A l \in BatchLinks(r) :
                 \A d \in news' :
                   d.link = l =>
                     d = Transform(LastWithLink(r, l), updateCategories[runs[r].i].query)
            /\ {d.link : d \in news'} = {d.link : d \in news} \cup BatchLinks(r)
            /\ Cardinality(news') = Cardinality({d.link : d \in news'})]_vars

C14_Witness ==
  /\ Len(runs) = 2
  /\ \A r \in RunIds : runs[r].pc = "done" /\ runs[r].completed /\ runs[r].wrote
  /\ Cardinality(news) = 1
  /\ \E d \in news : d.link \in StoreLinks /\ d.title = "No title available"

\* C18: acquire always returns to updateDatabase, and returns false, leaving
\* the lock store as it is, when its store operation failed; release always
\* returns normally, whether its store operation failed or not.
C18_LockFailuresSwallowed ==
  [][\A r \in RunIds :
       /\ AcquireReturns(r) =>
            /\ runs'[r].pc \in {"status", "fetch"}
            /\ runs'[r].acquires = runs[r].acquires + 1
            /\ runs'[r].found = "error" =>
                 /\ ~runs'[r].lockAcquired
                 /\ runs'[r].pc = "status"
                 /\ locks' = locks
       /\ (runs[r].pc = "release" /\ runs'[r].pc \notin {"release", "killed"}) =>
            /\ runs'[r].pc = "done"
            /\ runs'[r].releases = runs[r].releases + 1]_vars

C18_Witness ==
  /\ Len(runs) = 2
  /\ \E a \in RunIds, b \in RunIds :
       /\ runs[a].pc = "done" /\ runs[a].lockAcquired /\ runs[a].releases = 1
       /\ \E d \in locks : d.lockedBy = runs[a].instanceId /\ d.lockedAt = runs[a].now
       /\ runs[b].found = "error" /\ ~runs[b].lockAcquired /\ runs[b].pc = "done"

\* C19: no failure leaves updateDatabase: no invocation ends with an
\* exception thrown to its caller. The code does not keep this: the
\* getLockStatus lookup of the skip path is not guarded.
C19_NoFailureEscapes ==
  \A r \in RunIds : runs[r].pc # "rejected"

\* Invocation k was stopped with its process while it held the lock, its
\* record is still stored, and the next minute and the minute after the
\* record expires are within the clock time followed.
DeadHolder(k) ==
  /\ runs[k].pc = "killed" /\ runs[k].lockAcquired
  /\ now + MsPerMinute <= MaxMinutes * MsPerMinute
  /\ \E d \in locks :
       /\ d.lockedBy = runs[k].instanceId /\ d.lockedAt = runs[k].now
       /\ d.expiresAt + MsPerMinute <= MaxMinutes * MsPerMinute

\* An invocation of a running process has taken over an expired lock, after
\* the locks of the stopped invocations had expired, and has gone on to the
\* update.
Recovered ==
  \E r \in RunIds :
    /\ alive[runs[r].proc]
    /\ runs[r].lockAcquired /\ runs[r].found = "expired" /\ runs[r].fetched
    /\ \A k \in RunIds :
         runs[k].pc = "killed" => runs[r].now > runs[k].now + TtlMs

\* C20: when the instance that holds the lock stops before its release, an
\* acquire called by another instance after the record's expiresAt returns
\* true, and under the schedulers some running instance eventually takes
\* the lock over and runs the update: the lock of a dead instance is not
\* held forever.
C20_CrashRecovery ==
  /\ (\E k \in RunIds : DeadHolder(k)) ~> Recovered
  /\ [][\A r \in RunIds, k \in RunIds :
          (/\ AcquireReturns(r)
           /\ runs[k].pc = "killed" /\ runs[k].lockAcquired
           /\ \E d \in locks : /\ d.lockedBy = runs[k].instanceId
                               /\ d.lockedAt = runs[k].now
                               /\ d.expiresAt < runs[r].now)
          => runs'[r].lockAcquired]_vars

C20_Witness ==
  /\ Recovered
  /\ \E k \in RunIds :
       /\ runs[k].pc = "killed" /\ runs[k].lockAcquired /\ ~alive[runs[k].proc]
       /\ \A d \in locks : d.lockedAt > runs[k].now + TtlMs

\* C22: all updateDatabase invocations of one process use the same
\* instanceId, and one invocation passes the same value to acquire and to
\* release. The code derives the instanceId anew in every invocation, from
\* Date.now() when HOSTNAME is unset, so the first half does not hold.
C22_OneInstanceIdPerProcess ==
  \A a \in RunIds, b \in RunIds :
    runs[a].proc = runs[b].proc => runs[a].instanceId = runs[b].instanceId

\* C23: within one process at most one search request of the update job is
\* in flight: overlapping invocations of one process never both await a
\* fetch. The code does not keep this when a run outlives its TTL.
C23_OneRequestInFlight ==
  \A a \in RunIds, b \in RunIds :
    (/\ runs[a].proc = runs[b].proc
     /\ runs[a].pc = "fetch" /\ runs[b].pc = "fetch") => a = b

\* C24: every lock record has lockedAt equal to the clock reading of the
\* acquire that wrote it and expiresAt = lockedAt + ttlMinutes * 60000 ms,
\* so expiresAt is later than lockedAt in every state of the lock store.
C24_ExpiryFromOneReading ==
  \A d \in locks :
    /\ d.expiresAt = d.lockedAt + ttlMinutes * MsPerMinute
    /\ d.expiresAt > d.lockedAt
    /\ \E r \in RunIds : /\ runs[r].lockAcquired
                         /\ runs[r].instanceId = d.lockedBy
                         /\ runs[r].now = d.lockedAt

C24_Witness ==
  \E d \in locks, r \in RunIds :
    /\ runs[r].lockAcquired /\ runs[r].found = "expired"
    /\ d.lockedBy = runs[r].instanceId
    /\ d.lockedAt = TtlMs + 1 /\ d.expiresAt = 2 * TtlMs + 1

\* C29: acquire called by the instance that owns a record that has not
\* expired returns false and leaves the record, its lockedAt and expiresAt
\* included, as it is: the lock is not re-entrant and a lease is never
\* extended.
C29_NotReentrant ==
  [][\A r \in RunIds :
       (/\ AcquireReturns(r)
        /\ \E d \in locks : /\ d.jobName = lockName
                            /\ d.lockedBy = runs[r].instanceId
                            /\ ~(d.expiresAt < runs[r].now))
       => ~runs'[r].lockAcquired /\ locks' = locks]_vars

C29_Witness ==
  \E r \in RunIds, d \in locks :
    /\ runs[r].pc = "status" /\ runs[r].found = "held"
    /\ ~runs[r].lockAcquired
    /\ d.lockedBy = runs[r].instanceId
    /\ d.lockedAt < runs[r].now /\ ~(d.expiresAt < runs[r].now)

\* C28: a release deletes only the record that the same invocation's acquire
\* wrote (the one with the invocation's instanceId and clock reading), also
\* when a later invocation with the same instanceId has re-acquired the
\* expired lock. The code compares lockedBy only, so it does not hold.
C28_ReleaseDeletesOwnRecord ==
  [][\A r \in RunIds :
       ReleaseReturns(r) =>
         \A d \in locks \ locks' :
           /\ runs[r].lockAcquired
           /\ d.lockedBy = runs[r].instanceId
           /\ d.lockedAt = runs[r].now]_vars

\* C21: a category fetch of updateDatabase is a call of the retrying client:
\* it returns when a fetchWithRetry call has returned a body, or, with the
\* category skipped, when that call has thrown after its last retry. The
\* code sends one axios request and never calls fetchWithRetry.
C21_FetchThroughRetryingClient ==
  [][\A r \in RunIds :
       FetchReturns(r) =>
         \/ call'.pc = "returned"
         \/ /\ call'.pc = "threw"
            /\ Len(call'.responses) = call'.start + 1
            /\ runs'[r].pc # "write"]_vars

\* The step in which invocation r's call of getLockStatus returns or throws.
StatusReturns(r) ==
  runs[r].pc = "status" /\ runs'[r].pc \in {"done", "rejected"}

\* C25: the article store changes only in a bulk write of the update loop;
\* the handlers of GET /api/news and GET /api/health (the steps that answer
\* a request) and acquire, release and getLockStatus leave it as it is, and
\* the lock store changes only in acquire and release, so getLockStatus and
\* the handlers leave it as it is.
C25_OnlyUpdateLoopWritesArticles ==
  [][/\ news' # news =>
          \E r \in RunIds : runs[r].pc = "write" /\ runs'[r] # runs[r]
     /\ http' # http => news' = news /\ locks' = locks
     /\ \A r \in RunIds :
          (AcquireReturns(r) \/ ReleaseReturns(r) \/ StatusReturns(r))
            => news' = news
     /\ \A r \in RunIds : StatusReturns(r) => locks' = locks
     /\ locks' # locks =>
          \E r \in RunIds : AcquireReturns(r) \/ ReleaseReturns(r)]_vars

C25_Witness ==
  /\ http.route = "health" /\ http.status = 200
  /\ http.count = Cardinality(news) /\ http.count >= 1
  /\ \E d \in locks : http.lockedBy = {d.lockedBy}
  /\ \E r \in RunIds : runs[r].pc = "done" /\ runs[r].found = "held"

\* C30: no step makes the set of stored links smaller, so the number of
\* stored articles never decreases; a bulk write that succeeds leaves the
\* record of each of its links under the category that wrote it, whatever
\* category it was stored under, so the number stored under a query can
\* decrease (the witness: GET /api/news counted one article under a query
\* and the store now holds one article, under another query).
C30_LastWriterSetsQuery ==
  [][/\ {d.link : d \in news} \subseteq {d.link : d \in news'}
     /\ Cardinality(news') >= Cardinality(news)
     /\ \A r \in RunIds :
          BulkWriteSucceeds(r) =>
            \A l \in BatchLinks(r) :
              \A d \in news' :
                d.link = l => d.query = updateCategories[runs[r].i].query]_vars

C30_Witness ==
  /\ http.route = "news" /\ http.status = 200 /\ http.count = 1
  /\ Cardinality(news) = 1
  /\ \A d \in news : d.query # http.query

\* The search results with every field the update job reads; a missing
\* field is undefined, and a title can be empty, blank or padded.
FullTitles == {undefined, "", "t1", " t1 ", "  "}
FullSources ==
  {[isUndefined |-> TRUE, name |-> undefined],
   [isUndefined |-> FALSE, name |-> undefined],
   [isUndefined |-> FALSE, name |-> "s1"]}
FullItems ==
  [link : Links, title : FullTitles, snippet : {undefined, "d1"},
   thumbnail : {undefined} \cup Urls, source : FullSources,
   date : {undefined, "2 hours ago"}, isNull : {FALSE}]

\* An article of the same link that an earlier run stored, every field set.
StoredBefore ==
  [title |-> "t0", description |-> "d0", link |-> "l1", image |-> "http://i1",
   source |-> "s0", date |-> "1969-12-31", query |-> "Sports"]

\* One invocation that holds the lock and is about to write the one result
\* of its category's fetch, on some day, into an empty store or over the
\* article stored before.
MapInit ==
  /\ now \in {0, MsPerDay}
  /\ env = [p \in Procs |-> NoHost]
  /\ alive = [p \in Procs |-> TRUE]
  /\ news \in {{}, {StoredBefore}}
  /\ call = NoCall
  /\ startup = Started
  /\ http = NoResponse
  /\ newsCache = EmptyCache
  /\ request = NoRequest
  /\ \E i \in 1..Len(updateCategories), article \in FullItems :
       LET run == [NewRun(1, now, {}) EXCEPT
                     !.pc = "write", !.lockAcquired = TRUE, !.found = "none",
                     !.acquires = 1, !.fetched = TRUE, !.i = i,
                     !.articles = <<article>>]
       IN  /\ runs = <<run>>
           /\ locks = {LockDoc(lockName, now, run.instanceId,
                               ExpiresAt(now, ttlMinutes))}

\* articles.map(...) with every field, the cast of the schema, and the
\* bulk write.
writeAll(r) == writeAs(r, TRUE)

MapNext ==
  \/ \E r \in 1..Len(runs) : writeAll(r)
  \/ \E r \in 1..Len(runs) : fetchFrom(r, {[failed |-> TRUE, news_results |-> <<>>]})
  \/ \E r \in 1..Len(runs) : release(r, FALSE)

MapSpec == MapInit /\ [][MapNext]_vars

\* C26: the article stored for a search result has the result's title (as
\* the schema's trim leaves it), snippet, thumbnail and date when the result
\* has them, and otherwise the placeholder title, the empty description, no
\* image (null, which the schema's validator accepts) and the current date;
\* its query is the category being processed and its link the result's link.
C26_StoredArticleDefaults ==
  [][\A r \in RunIds :
       BulkWriteSucceeds(r) =>
         LET a == runs[r].articles[1]
             present(v) == v \notin {undefined, ""}
         IN  \E d \in news' :
               /\ d.link = a.link
               /\ d.query = updateCategories[runs[r].i].query
               /\ d.title = IF present(a.title) THEN Trim(a.title)
                            ELSE "No title available"
               /\ d.description = IF present(a.snippet) THEN a.snippet ELSE ""
               /\ d.image = IF present(a.thumbnail) THEN a.thumbnail ELSE null
               /\ imageValidator(d.image)
               /\ d.date = IF present(a.date) THEN a.date
                           ELSE IF now < MsPerDay THEN "1970-01-01"
                           ELSE "1970-01-02"
               /\ \A e \in news' : e.link = d.link => e = d]_vars

C26_Witness ==
  \E r \in RunIds, d \in news :
    /\ runs[r].wrote /\ runs[r].pc = "fetch"
    /\ now = MsPerDay
    /\ d.link = "l1" /\ d.query = "Technology"
    /\ d.title = "No title available" /\ d.description = ""
    /\ d.image = null /\ d.date = "1970-01-02"

\* startServer of process p: the awaited mongoose.connect resolves, and the
\* cron job is scheduled, the initial update armed and the listener started;
\* or it rejects, and the catch block calls process.exit(1).
startServer(p, connected) ==
  /\ alive[p] /\ startup[p] = "connecting"
  /\ startup' = [startup EXCEPT ![p] = IF connected THEN "started" ELSE "failed"]
  /\ alive' = [alive EXCEPT ![p] = connected]
  /\ UNCHANGED <<now, env, locks, news, runs, call, http, newsCache, request>>

\* The cron job, the timer of the initial update or the manual trigger of
\* process p calls updateDatabase.
scheduled(p) == Scheduled(startup[p]) /\ updateDatabase(p)

\* The processes from their start: each connects or fails to, and the ones
\* that started run the update job and answer requests.
StartInit ==
  /\ now = 0
  /\ env = [p \in Procs |-> NoHost]
  /\ alive = [p \in Procs |-> TRUE]
  /\ locks = {}
  /\ news = {}
  /\ runs = <<>>
  /\ call = NoCall
  /\ startup = [p \in Procs |-> "connecting"]
  /\ http = NoResponse
  /\ newsCache = EmptyCache
  /\ request = NoRequest

StartNext ==
  \/ \E p \in Procs, connected \in BOOLEAN : startServer(p, connected)
  \/ \E p \in Procs : scheduled(p)
  \/ \E r \in 1..Len(runs) : Step(r)
  \/ \E p \in Procs : getHealth(p, FALSE)
  \/ \E p \in Procs, query \in ServeQueries : getNews(p, query, "20", FALSE)

StartSpec == StartInit /\ [][StartNext]_vars

\* C27: a process whose initial connection failed has exited, stays so, and
\* has made no updateDatabase invocation, hence no lock operation: every
\* invocation and every lock record belongs to a process that started, and
\* a request is answered only while some process is listening.
C27_FailedStartupRunsNothing ==
  [][/\ \A p \in Procs :
          startup'[p] = "failed" =>
            /\ startup[p] \in {"connecting", "failed"}
            /\ ~alive'[p]
            /\ \A r \in 1..Len(runs') : runs'[r].proc # p
            /\ \A d \in locks' : d.lockedBy.pid # p
     /\ \A p \in Procs : startup[p] = "failed" => startup'[p] = "failed"
     /\ http' # http => \E p \in Procs : alive[p] /\ startup[p] = "started"]_vars

C27_Witness ==
  /\ startup[1] = "failed" /\ ~alive[1]
  /\ startup[2] = "started"
  /\ \E r \in RunIds : runs[r].proc = 2 /\ runs[r].lockAcquired /\ runs[r].wrote
  /\ http.route = "health" /\ http.count = 1

\* C31: a GET /api/google-news request with a good num is answered from the
\* cache, with no fetch, exactly when the cache timestamp is set, its age is
\* below CACHE_TTL and the cached query is the requested one; otherwise a
\* fetch is started; and a fetch that returns replaces the cache entry by
\* its articles, the clock value and its query, which is the only way the
\* cache changes.
C31_CacheHitIffValid ==
  [][LET fresh(query) ==
           /\ newsCache.timestamp # {}
           /\ \A ts \in newsCache.timestamp : now - ts < CACHE_TTL
           /\ newsCache.query = query
     IN
     /\ (request.pc = "idle" /\ request'.pc = "fetching") =>
          /\ ~fresh(request'.query)
          /\ call'.pc = "request" /\ http' = http
     /\ (request.pc = "idle" /\ request'.pc = "idle" /\ http' # http
           /\ http'.status = 200) =>
          /\ fresh(http'.query)
          /\ http'.articles = newsCache.articles
          /\ http'.cached /\ call' = call
     /\ (request.pc = "fetching" /\ request'.pc = "idle"
           /\ call.pc = "returned") =>
          /\ newsCache' = [articles |-> Articles(call.result, request.query),
                           timestamp |-> {now}, query |-> request.query]
          /\ http'.articles = newsCache'.articles
     /\ newsCache' # newsCache =>
          request.pc = "fetching" /\ call.pc = "returned"]_vars

C31_Witness ==
  /\ http.route = "google-news" /\ http.status = 200
  /\ http.cached /\ ~http.warning
  /\ http.articles # <<>> /\ http.articles = newsCache.articles
  /\ http.query = newsCache.query
  /\ \E ts \in newsCache.timestamp : now - ts = CACHE_TTL - 1
  /\ request.pc = "idle"

\* C32: every success answer of GET /api/google-news for a query holds only
\* articles that a search for that query returned, the answer from the
\* cache after a failed fetch included. The catch block answers with the
\* cached articles whatever query they were fetched for, so it does not
\* hold.
C32_AnswerOnlyForItsQuery ==
  (http.route = "google-news" /\ http.status = 200) =>
    \A i \in 1..Len(http.articles) : http.articles[i].query = http.query

====
